---- MODULE Spec2Model ----
(***************************************************************************)
(* A model of the knowledge-hub backend: the chunker of the ingestion      *)
(* service (services/ingest.py), the semantic cache (services/cache.py)    *)
(* and the answer orchestrator with its response cache and its lazily      *)
(* loaded cross-encoder (services/rag.py).                                 *)
(*                                                                         *)
(* Text is a sequence of tokens.  Token 0 is a sentence terminator (the    *)
(* characters '.', '!' and '?', which _split_large_text treats as one      *)
(* class); a token k > 0 is a word of input item k.  The tokenizer counts  *)
(* one token per word and per terminator; blanks are not tokens.           *)
(*                                                                         *)
(* Redis is a store of string keys with expiry (redis_kv) and the hash     *)
(* cache_index, whose fields never expire and whose field order in the     *)
(* replies of HKEYS and HGETALL is not specified.  The clock counts hours. *)
(* A digest (sha256, md5) is written as the text it is taken of.           *)
(*                                                                         *)
(* A worker is a thread of the process serving a request; its position in  *)
(* RAGService.ask or RAGService.rerank is pc, the stages it has passed in  *)
(* its current call are stages.                                            *)
(***************************************************************************)
EXTENDS Integers, Sequences, FiniteSets, TLC

\* ------------------------------------------------------------- bounds
MaxItems == 2
MaxItemTokens == 3
MaxChunkSize == 2

None == "None"

VARIABLES
    \* IngestService
    content,        \* the extracted items handed to _chunk_text
    chunk_size,     \* settings.RAG_CHUNK_SIZE
    chunk_overlap,  \* settings.RAG_CHUNK_OVERLAP
    chunks,         \* the list _chunk_text returned
    chunked,        \* whether _chunk_text has run
    \* one uploaded document and the Celery task processing it
    doc_status,     \* Document.status, "none" before the upload
    chunk_rows,     \* the chunk_index of the document's Chunk rows, in insert order
    row_embedded,   \* for each of these rows, whether its embedding_id is set
    row_vector,     \* for each of these rows, whether ChromaDB holds a vector under its id
    chunk_count,    \* Document.chunk_count
    error_message,  \* whether Document.error_message is set
    last_run,       \* how the last operation on the document went
    task_queued,    \* whether a run of the task process_document is due
    task_retries,   \* self.request.retries of that task
    \* build_context
    result_text,    \* the text of a search result
    text_snippet,   \* the text_snippet of its citation
    snippet_built,  \* whether build_context has built the citation
    \* users, their tokens and the requests made with them
    user_role,      \* User.role of each user
    user_active,    \* User.is_active of each user
    access_tokens,  \* the access tokens issued: [jti, user_id, role, exp]
    revoked_tokens, \* the RevokedToken rows: [jti, expires_at]
    token_blacklist,\* security.token_blacklist
    audit_log,      \* the number of AuditLog rows
    last_request,   \* the last request: its endpoint, token and status
    \* the clock, in hours
    now,
    \* SemanticCache and its Redis store
    redis_kv,       \* the string keys "semantic_cache:<hash>": key -> entry
    cache_index,    \* the hash "cache_index": <<[key, embedding]>>, in HKEYS order
    max_cache_size, \* SemanticCache.max_cache_size
    invalidated,    \* the keys invalidate() was called for and set() not since
    last_set,       \* <<the last set(): question, answer, time>>, <<>> once an invalidate followed
    last_get,       \* what the last get(), invalidate() or invalidate_all() returned
    set_calls,      \* the number of set() calls made
    \* RAGService and what it works on
    query_cache,    \* _query_cache: key -> [response, timestamp]
    qa_history,     \* the QAHistory rows, in commit order
    chunk_store,    \* the ids of the Chunk rows
    vector_store,   \* the ids in the ChromaDB collection
    cross_encoder_loaded,   \* RAGService._cross_encoder_loaded
    cross_encoder,  \* RAGService._cross_encoder
    load_attempts,  \* how often CrossEncoder(...) was called
    pc,             \* where each worker stands in its request
    job,            \* each worker's request and the locals of its ask()
    stages          \* the stages each worker's current ask() went through

docVars == <<doc_status, chunk_rows, row_embedded, row_vector, chunk_count, error_message,
             last_run, task_queued, task_retries>>
snippetVars == <<result_text, text_snippet, snippet_built>>
authVars == <<user_role, user_active, access_tokens, revoked_tokens, token_blacklist, audit_log,
              last_request>>
chunkVars == <<content, chunk_size, chunk_overlap, chunks, chunked, docVars, snippetVars,
               authVars>>
semVars == <<redis_kv, cache_index, max_cache_size, invalidated, last_set, last_get, set_calls>>
encoderVars == <<cross_encoder_loaded, cross_encoder, load_attempts>>
ragVars == <<query_cache, qa_history, chunk_store, vector_store, encoderVars, pc, job, stages>>

vars == <<chunkVars, now, semVars, ragVars>>

\* ------------------------------------------------------------- helpers
RECURSIVE SeqSum(_)
SeqSum(s) == IF s = <<>> THEN 0 ELSE Head(s) + SeqSum(Tail(s))

RECURSIVE Flatten(_)
\* ' '.join(parts): the parts' tokens one after the other
Flatten(parts) == IF parts = <<>> THEN <<>> ELSE Head(parts) \o Flatten(Tail(parts))

\* ------------------------------------------------------------- chunker
Terminator == 0

\* len(self.tokenizer.encode(text))
TokenCount(text) == Len(text)

RECURSIVE SplitSentences(_, _)
\* text.replace('!', '.').replace('?', '.').split('.'), each piece stripped
\* and the empty ones dropped; cur is the piece being read
SplitSentences(text, cur) ==
    IF text = <<>>
    THEN IF cur = <<>> THEN <<>> ELSE <<cur>>
    ELSE IF Head(text) = Terminator
         THEN (IF cur = <<>> THEN <<>> ELSE <<cur>>) \o SplitSentences(Tail(text), <<>>)
         ELSE SplitSentences(Tail(text), Append(cur, Head(text)))

RECURSIVE JoinSentences(_)
\* '. '.join(current_chunk) + '.'
JoinSentences(sents) ==
    IF sents = <<>> THEN <<Terminator>>
    ELSE IF Len(sents) = 1 THEN Head(sents) \o <<Terminator>>
    ELSE Head(sents) \o <<Terminator>> \o JoinSentences(Tail(sents))

MkChunk(text, tokens, page, paragraph) ==
    [text |-> text, token_count |-> tokens, page |-> page, paragraph |-> paragraph]

RECURSIVE SplitLoop(_, _, _, _, _, _, _)
SplitLoop(sentences, acc, current_chunk, current_tokens, size, page, paragraph) ==
    IF sentences = <<>>
    THEN IF current_chunk # <<>>
         THEN Append(acc, MkChunk(JoinSentences(current_chunk), current_tokens, page, paragraph))
         ELSE acc
    ELSE LET sentence == Head(sentences)
             tokens == TokenCount(sentence)
             flush == current_tokens + tokens > size /\ current_chunk # <<>>
             acc1 == IF flush
                     THEN Append(acc, MkChunk(JoinSentences(current_chunk), current_tokens,
                                              page, paragraph))
                     ELSE acc
             cur1 == IF flush THEN <<>> ELSE current_chunk
             tok1 == IF flush THEN 0 ELSE current_tokens
         IN SplitLoop(Tail(sentences), acc1, Append(cur1, sentence), tok1 + tokens,
                      size, page, paragraph)

\* IngestService._split_large_text
split_large_text(text, page, paragraph, size) ==
    SplitLoop(SplitSentences(text, <<>>), <<>>, <<>>, 0, size, page, paragraph)

\* The state of the loop of _chunk_text before its first item.
ChunkStart ==
    [chunks |-> <<>>, current_chunk |-> <<>>, current_tokens |-> 0,
     current_page |-> None, current_paragraph |-> None]

FlushCurrent(st) ==
    Append(st.chunks, MkChunk(Flatten(st.current_chunk), st.current_tokens,
                              st.current_page, st.current_paragraph))

\* The seed of the next chunk after a flush: the last accumulated item when
\* it fits the overlap budget, nothing otherwise.
OverlapSeed(st, overlap) ==
    LET overlap_text == st.current_chunk[Len(st.current_chunk)]
        overlap_tokens == TokenCount(overlap_text)
    IN IF overlap_tokens <= overlap
       THEN [chunk |-> IF overlap_text # <<>> THEN <<overlap_text>> ELSE <<>>,
             tokens |-> overlap_tokens]
       ELSE [chunk |-> <<>>, tokens |-> 0]

\* One iteration of the loop of _chunk_text.
ChunkItem(st, item, size, overlap) ==
    LET text == item.text
        tokens == TokenCount(text)
    IN IF tokens > size
       THEN LET flushed == IF st.current_chunk # <<>> THEN FlushCurrent(st) ELSE st.chunks
            IN [st EXCEPT
                  !.chunks = flushed \o split_large_text(text, item.page, item.paragraph, size),
                  !.current_chunk = <<>>,
                  !.current_tokens = IF st.current_chunk # <<>> THEN 0 ELSE @]
       ELSE LET flush == st.current_tokens + tokens > size /\ st.current_chunk # <<>>
                seed == IF flush THEN OverlapSeed(st, overlap)
                        ELSE [chunk |-> st.current_chunk, tokens |-> st.current_tokens]
            IN [chunks |-> IF flush THEN FlushCurrent(st) ELSE st.chunks,
                current_chunk |-> Append(seed.chunk, text),
                current_tokens |-> seed.tokens + tokens,
                current_page |-> item.page,
                current_paragraph |-> item.paragraph]

RECURSIVE ChunkLoop(_, _, _, _)
ChunkLoop(st, items, size, overlap) ==
    IF items = <<>> THEN st
    ELSE ChunkLoop(ChunkItem(st, Head(items), size, overlap), Tail(items), size, overlap)

\* IngestService._chunk_text
chunk_text(items, size, overlap) ==
    LET st == ChunkLoop(ChunkStart, items, size, overlap)
    IN IF st.current_chunk # <<>> THEN FlushCurrent(st) ELSE st.chunks

\* ------------------------------------------------------------- semantic cache
\* A question is a string: a sequence of one-character strings.
Lower(c) == CASE c = "A" -> "a" [] c = "B" -> "b" [] OTHER -> c

LowerStr(s) == [i \in 1..Len(s) |-> Lower(s[i])]

RECURSIVE LStrip(_)
LStrip(s) == IF s # <<>> /\ Head(s) = " " THEN LStrip(Tail(s)) ELSE s

RECURSIVE RStrip(_)
RStrip(s) == IF s # <<>> /\ s[Len(s)] = " " THEN RStrip(SubSeq(s, 1, Len(s) - 1)) ELSE s

Strip(s) == RStrip(LStrip(s))

\* question.lower().strip()
Normalize(question) == Strip(LowerStr(question))

\* SemanticCache._compute_hash, and with it the key cache_prefix + hash.  The
\* digest is written as the text it is taken of: two questions get one key
\* exactly when their normalized texts are equal.
compute_hash(question) == Normalize(question)

\* SemanticCache.__init__ defaults
similarity_threshold == 92
ttl_hours == 24

\* An embedding is a vector <<x, y>>; no embedding (None, or an empty list,
\* which the code treats alike) is <<>>.
NoEmbedding == <<>>

Dot(a, b) == a[1] * b[1] + a[2] * b[2]

\* SemanticCache._cosine_similarity(a, b) = dot / sqrt(nn), kept exact.
cosine_similarity(a, b) == [dot |-> Dot(a, b), nn |-> Dot(a, a) * Dot(b, b)]

\* best_similarity = 0.0
ZeroSim == [dot |-> 0, nn |-> 1]

\* s > t, for t >= 0
SimGreater(s, t) == s.dot > 0 /\ s.dot * s.dot * t.nn > t.dot * t.dot * s.nn

\* s >= t, for t >= 0
SimAtLeast(s, t) == s.dot > 0 /\ s.dot * s.dot * t.nn >= t.dot * t.dot * s.nn

\* similarity >= self.similarity_threshold (in hundredths)
ReachesThreshold(s) ==
    s.dot > 0 /\ 10000 * s.dot * s.dot >= similarity_threshold * similarity_threshold * s.nn

Miss == [cache_hit |-> "miss"]

EmptyKv == [k \in {} |-> 0]

\* last_get before any read
NoRet == [op |-> "none"]

\* The hash cache_index is kept as the sequence of its fields in the order
\* they were added.  Redis does not specify the order in which HKEYS and
\* HGETALL return the fields of a hash (it is insertion order only while the
\* hash is small and every value short; an embedding's JSON is not short).
\* What the code does with a reply depends on its order through the fields
\* that come first: the rotations of the sequence put each field first.
Rotate(s, i) == SubSeq(s, i, Len(s)) \o SubSeq(s, 1, i - 1)

HashOrders(index) ==
    IF index = <<>> THEN {<<>>} ELSE {Rotate(index, i) : i \in 1..Len(index)}

RECURSIVE LookupLoop(_, _, _, _)
\* The scan of _semantic_lookup over index_data.items(); best_match is <<>>
\* (None) or <<key>>.
LookupLoop(index, query_embedding, best_match, best_similarity) ==
    IF index = <<>>
    THEN [best_match |-> best_match, best_similarity |-> best_similarity]
    ELSE LET similarity == cosine_similarity(query_embedding, Head(index).embedding)
             better == SimGreater(similarity, best_similarity) /\ ReachesThreshold(similarity)
         IN LookupLoop(Tail(index), query_embedding,
                       IF better THEN <<Head(index).key>> ELSE best_match,
                       IF better THEN similarity ELSE best_similarity)

\* SemanticCache._semantic_lookup, index being the reply of HGETALL
semantic_lookup(kv, index, query_embedding) ==
    IF index = <<>> THEN Miss
    ELSE LET r == LookupLoop(index, query_embedding, <<>>, ZeroSim)
         IN IF r.best_match # <<>> /\ r.best_match[1] \in DOMAIN kv
            THEN [cache_hit |-> "semantic", entry |-> kv[r.best_match[1]],
                  similarity |-> r.best_similarity]
            ELSE Miss

\* SemanticCache.get: what it returns in a store kv when HGETALL replies index
cache_get(kv, index, question, embedding) ==
    LET exact_key == compute_hash(question)
    IN IF exact_key \in DOMAIN kv
       THEN [cache_hit |-> "exact", entry |-> kv[exact_key]]
       ELSE IF embedding # NoEmbedding
            THEN semantic_lookup(kv, index, embedding)
            ELSE Miss

\* redis.hset(index_key, key, value): a new field goes last, a field that is
\* there keeps its place
HSet(index, key, embedding) ==
    IF \E i \in 1..Len(index) : index[i].key = key
    THEN [i \in 1..Len(index) |->
             IF index[i].key = key THEN [key |-> key, embedding |-> embedding] ELSE index[i]]
    ELSE Append(index, [key |-> key, embedding |-> embedding])

\* redis.hdel(index_key, key) for each key of keys
HDel(index, keys) == SelectSeq(index, LAMBDA e : e.key \notin keys)

\* A faulty delete that removes nothing.
DelNothing(kv, keys) == kv

\* redis.delete(key) for each key of keys
Del(kv, keys) == [k \in DOMAIN kv \ keys |-> kv[k]]

\* SemanticCache._prune_if_needed, hkeys being the reply of HKEYS
prune_if_needed(kv, index, max, hkeys) ==
    LET cache_size == Len(index)
        to_remove == cache_size \div 10     \* int(cache_size * 0.1)
        keys == {hkeys[i].key : i \in 1..to_remove}
    IN IF cache_size > max
       THEN [kv |-> Del(kv, keys), index |-> HDel(index, keys)]
       ELSE [kv |-> kv, index |-> index]

\* redis.setex(cache_key, self.ttl, json.dumps(cache_data))
SetEx(kv, key, entry) == [k \in DOMAIN kv \cup {key} |-> IF k = key THEN entry ELSE kv[k]]

\* The entry SemanticCache.set builds, with the expiry setex gives its key.
cache_data(question, answer, at) ==
    [question |-> question, answer |-> answer, cached_at |-> at,
     expire_at |-> at + ttl_hours]

\* What SemanticCache.set(question, answer, embedding) at time at can make of
\* a store kv with index index and size limit max: the store and index after
\* the write (written, indexed) and after the pruning that ends it (kv,
\* index), for each reply of HKEYS.
cache_set(kv, index, max, question, answer, embedding, at) ==
    LET cache_key == compute_hash(question)
        kv1 == SetEx(kv, cache_key, cache_data(question, answer, at))
        index1 == IF embedding # NoEmbedding
                  THEN HSet(index, cache_key, embedding)
                  ELSE index
    IN {[kv |-> p.kv, index |-> p.index, written |-> kv1, indexed |-> index1] :
           p \in {prune_if_needed(kv1, index1, max, hkeys) : hkeys \in HashOrders(index1)}}

\* SemanticCache.set
SemSet(question, answer, embedding) ==
    \E p \in cache_set(redis_kv, cache_index, max_cache_size, question, answer, embedding, now) :
       /\ redis_kv' = p.kv
       /\ cache_index' = p.index
       /\ invalidated' = invalidated \ {compute_hash(question)}
       /\ last_set' = <<[question |-> question, answer |-> answer, at |-> now]>>
       /\ last_get' = NoRet
       /\ set_calls' = set_calls + 1
       /\ UNCHANGED <<now, max_cache_size, chunkVars, ragVars>>

\* SemanticCache.get
SemGet(question, embedding) ==
    /\ last_get' \in {[op |-> "get", ret |-> cache_get(redis_kv, index_data, question, embedding)] :
                         index_data \in HashOrders(cache_index)}
    /\ UNCHANGED <<now, redis_kv, cache_index, max_cache_size, invalidated, last_set,
                   set_calls, chunkVars, ragVars>>

\* SemanticCache.invalidate: what it returns
invalidate_ret(kv, question) ==
    LET deleted == IF compute_hash(question) \in DOMAIN kv THEN 1 ELSE 0
    IN deleted > 0

\* SemanticCache.invalidate
SemInvalidate(question) ==
    LET cache_key == compute_hash(question)
    IN /\ redis_kv' = Del(redis_kv, {cache_key})
       /\ cache_index' = HDel(cache_index, {cache_key})
       /\ invalidated' = invalidated \cup {cache_key}
       /\ last_set' = <<>>
       /\ last_get' = [op |-> "invalidate", question |-> question,
                       ret |-> invalidate_ret(redis_kv, question)]
       /\ UNCHANGED <<now, max_cache_size, set_calls, chunkVars, ragVars>>

\* SemanticCache.invalidate_all
SemInvalidateAll ==
    LET keys == DOMAIN redis_kv        \* scan_iter(cache_prefix + "*")
    IN /\ IF keys # {}
          THEN /\ redis_kv' = Del(redis_kv, keys)
               /\ cache_index' = <<>>
          ELSE UNCHANGED <<redis_kv, cache_index>>
       /\ last_set' = <<>>
       /\ last_get' = [op |-> "invalidate_all", ret |-> Cardinality(keys)]
       /\ UNCHANGED <<now, max_cache_size, invalidated, set_calls, chunkVars, ragVars>>

\* Redis drops a string key when its time to live has run out; the fields of
\* the hash cache_index have no expiry.
Expire(kv, t) == [k \in {x \in DOMAIN kv : t < kv[x].expire_at} |-> kv[k]]

IdleSem ==
    /\ redis_kv = EmptyKv
    /\ cache_index = <<>>
    /\ max_cache_size = 0
    /\ invalidated = {}
    /\ last_set = <<>>
    /\ last_get = NoRet
    /\ set_calls = 0

IdleClock == now = 0

\* Time passes: d hours.
Advance(d) ==
    /\ now' = now + d
    /\ redis_kv' = Expire(redis_kv, now + d)
    /\ last_get' = NoRet
    /\ UNCHANGED <<cache_index, max_cache_size, invalidated, last_set, set_calls, chunkVars,
                   ragVars>>
\* ------------------------------------------------------------- RAG service
\* The worker threads of the process.
Workers == {"w1", "w2", "w3"}

\* The Chunk rows that can exist, each with the user who uploaded its
\* document: Chunks are of u1's documents, OtherChunks of u2's.
Chunks == {1, 2}
OtherChunks == {3}
ChunkOwner(c) == IF c \in Chunks THEN "u1" ELSE "u2"

\* The filter of dense_search and sparse_search: with no user_id (None,
\* written "none") every chunk passes.
Visible(c, user_id) == user_id = "none" \/ ChunkOwner(c) = user_id

CACHE_TTL == 3600
QueryCacheLimit == 1000
RRF_K == 60

\* RAGService._get_cache_key: the md5 of "user_id:normalized", written as
\* the pair it is taken of
get_cache_key(question, user_id) == <<user_id, Normalize(question)>>

NoResponse == [answer |-> "none", citations |-> <<>>, qa_id |-> 0, cached |-> FALSE]

\* RAGService.get_cached_response at time t: whether it hit, the response it
\* returns, and the cache it leaves
get_cached_response(cache, question, user_id, t) ==
    LET key == get_cache_key(question, user_id)
    IN IF key \in DOMAIN cache
       THEN IF (t - cache[key].timestamp) * 60 * 60 < CACHE_TTL
            THEN [hit |-> TRUE,
                  response |-> [cache[key].response EXCEPT !.cached = TRUE],
                  cache |-> cache]
            ELSE [hit |-> FALSE, response |-> NoResponse, cache |-> Del(cache, {key})]
       ELSE [hit |-> FALSE, response |-> NoResponse, cache |-> cache]

\* min(_query_cache.keys(), key=timestamp)
OldestKey(cache) ==
    CHOOSE k \in DOMAIN cache : \A j \in DOMAIN cache : cache[k].timestamp <= cache[j].timestamp

\* RAGService.cache_response at time t: the cache it leaves
cache_response(cache, question, user_id, response, t) ==
    LET kept == IF Cardinality(DOMAIN cache) > QueryCacheLimit
                THEN Del(cache, {OldestKey(cache)})
                ELSE cache
        key == get_cache_key(question, user_id)
    IN [k \in DOMAIN kept \cup {key} |->
           IF k = key THEN [response |-> response, timestamp |-> t] ELSE kept[k]]

\* The orderings of a finite set.
RECURSIVE Perms(_)
Perms(S) ==
    IF S = {} THEN {<<>>}
    ELSE UNION {{<<x>> \o p : p \in Perms(S \ {x})} : x \in S}

Range(s) == {s[i] : i \in 1..Len(s)}

\* results[:k]
Truncate(s, k) == SubSeq(s, 1, IF Len(s) < k THEN Len(s) ELSE k)

\* What dense_search can return for user_id: the ids ChromaDB holds under the
\* filter uploaded_by = user_id (n_results = 20 covers them all) that still
\* have a Chunk row, in the order of their distance to the query embedding.
DenseRankings(user_id) ==
    Perms({c \in vector_store \cap chunk_store : Visible(c, user_id)})

\* What sparse_search can return for user_id: the user's chunks with a BM25
\* score above 0, by descending score.
SparseRankings(user_id) ==
    UNION {Perms(S) : S \in SUBSET {c \in chunk_store : Visible(c, user_id)}}

\* The scores of hybrid_search are kept exact: alpha is given in tenths and
\* every score is multiplied by 10 * RRFScale.
RRFScale == (RRF_K + 1) * (RRF_K + 2) * (RRF_K + 3) * (RRF_K + 4)

\* A faulty term that counts the rank from 1.
RRFTermFromOne(weight10, rank) == weight10 * (RRFScale \div (RRF_K + rank + 2))

\* alpha * (1 / (k + rank + 1)), rank counted from 0
RRFTerm(weight10, rank) == weight10 * (RRFScale \div (RRF_K + rank + 1))

\* The 0-based rank of chunk c in ranking s; c is in s.
RankOf(s, c) == (CHOOSE i \in 1..Len(s) : s[i] = c) - 1

\* rrf_scores: the dense results in their order and then the results only
\* sparse search found, each with its fused score
rrf_scores(dense, sparse, alpha10) ==
    LET sparseOnly == SelectSeq(sparse, LAMBDA c : c \notin Range(dense))
        score(c) == (IF c \in Range(dense) THEN RRFTerm(alpha10, RankOf(dense, c)) ELSE 0)
                  + (IF c \in Range(sparse) THEN RRFTerm(10 - alpha10, RankOf(sparse, c)) ELSE 0)
        ids == dense \o sparseOnly
    IN [i \in 1..Len(ids) |-> [chunk_id |-> ids[i], score |-> score(ids[i])]]

RECURSIVE InsertDesc(_, _)
\* x put behind every element of the sorted s whose score is not lower
InsertDesc(s, x) ==
    IF s = <<>> THEN <<x>>
    ELSE IF Head(s).score >= x.score THEN <<Head(s)>> \o InsertDesc(Tail(s), x)
    ELSE <<x>> \o s

\* A faulty sort that leaves the list as it is.
Unsorted(s) == s

RECURSIVE SortDesc(_)
\* sorted(..., key=score, reverse=True): stable
SortDesc(s) ==
    IF s = <<>> THEN <<>>
    ELSE InsertDesc(SortDesc(SubSeq(s, 1, Len(s) - 1)), s[Len(s)])

\* RAGService.hybrid_search, from the two rankings on
hybrid_search(dense, sparse, alpha10, top_k) ==
    Truncate(SortDesc(rrf_scores(dense, sparse, alpha10)), top_k)

\* The chunk ids of a list of results.
ChunkIds(results) == [i \in 1..Len(results) |-> results[i].chunk_id]

\* The no-results answer of ask.
NoDocuments ==
    [answer |-> "no_documents", citations |-> <<>>, qa_id |-> 0, cached |-> FALSE]

IdleJob ==
    [question |-> <<>>, user_id |-> "none", top_k |-> 0, alpha10 |-> 0, caller |-> "none",
     dense |-> <<>>, sparse |-> <<>>, fused |-> <<>>, results |-> <<>>, reranked |-> <<>>,
     citations |-> <<>>, answer |-> "none", qa_id |-> 0,
     outcome |-> "none", response |-> NoResponse]

IdleRag ==
    /\ query_cache = EmptyKv
    /\ qa_history = <<>>
    /\ chunk_store = {}
    /\ vector_store = {}
    /\ cross_encoder_loaded = FALSE
    /\ cross_encoder = None
    /\ load_attempts = 0
    /\ pc = [w \in Workers |-> "idle"]
    /\ job = [w \in Workers |-> IdleJob]
    /\ stages = [w \in Workers |-> <<>>]

notRag == <<chunkVars, now, semVars>>
corpusVars == <<chunk_store, vector_store>>

\* A step of worker w to pc value to, through stage stage.
Goto(w, to, stage) ==
    /\ pc' = [pc EXCEPT ![w] = to]
    /\ stages' = [stages EXCEPT ![w] = Append(@, stage)]

\* A step of worker w inside a stage.
SetPc(w, to) ==
    /\ pc' = [pc EXCEPT ![w] = to]
    /\ UNCHANGED stages

\* The call of worker w ends: it returns response, or raises (outcome
\* "error"); its locals are gone.
Finish(w, outcome, response, stage) ==
    /\ pc' = [pc EXCEPT ![w] = "idle"]
    /\ stages' = [stages EXCEPT ![w] = Append(@, stage)]
    /\ job' = [job EXCEPT ![w] = [IdleJob EXCEPT !.question = job[w].question,
                                                  !.user_id = job[w].user_id,
                                                  !.caller = job[w].caller,
                                                  !.outcome = outcome,
                                                  !.response = response]]

\* process_document stores a chunk row of an uploaded document.
StoreChunk(c) ==
    /\ c \notin chunk_store
    /\ chunk_store' = chunk_store \cup {c}
    /\ UNCHANGED <<vector_store, query_cache, qa_history, encoderVars, pc, job, stages, notRag>>

\* embed_chunks adds a stored chunk's vector to the collection.
EmbedChunk(c) ==
    /\ c \in chunk_store /\ c \notin vector_store
    /\ vector_store' = vector_store \cup {c}
    /\ UNCHANGED <<chunk_store, query_cache, qa_history, encoderVars, pc, job, stages, notRag>>

\* POST /ask: worker w enters RAGService.ask
AskStart(w, question, user_id, top_k, alpha10) ==
    /\ pc[w] = "idle"
    /\ pc' = [pc EXCEPT ![w] = "lookup"]
    /\ stages' = [stages EXCEPT ![w] = <<>>]
    /\ job' = [job EXCEPT ![w] = [IdleJob EXCEPT !.question = question, !.user_id = user_id,
                                                  !.top_k = top_k, !.alpha10 = alpha10,
                                                  !.caller = "ask"]]
    /\ UNCHANGED <<query_cache, qa_history, corpusVars, encoderVars, notRag>>

\* ask lines 491-495: the cache lookup
AskCacheLookup(w) ==
    /\ pc[w] = "lookup"
    /\ LET r == get_cached_response(query_cache, job[w].question, job[w].user_id, now)
       IN /\ query_cache' = r.cache
          /\ IF r.hit
             THEN Finish(w, "ok", r.response, "cache_hit")
             ELSE /\ Goto(w, "dense", IF r.cache = query_cache THEN "cache_miss"
                                                               ELSE "cache_expired")
                  /\ UNCHANGED job
    /\ UNCHANGED <<qa_history, corpusVars, encoderVars, notRag>>

\* The key of the question worker w asks.
JobKey(w) == get_cache_key(job[w].question, job[w].user_id)

\* get_cached_response line 104, one step of a thread: key in _query_cache
LookupTest(w) ==
    /\ pc[w] = "lookup"
    /\ IF JobKey(w) \in DOMAIN query_cache
       THEN SetPc(w, "lookup_read")
       ELSE Goto(w, "dense", "cache_miss")
    /\ UNCHANGED <<job, query_cache, qa_history, corpusVars, encoderVars, notRag>>

\* get_cached_response lines 105-113: cached = _query_cache[key], which
\* raises KeyError when another thread has deleted the key, then the TTL
\* test and the return of a fresh entry
LookupRead(w) ==
    /\ pc[w] = "lookup_read"
    /\ IF JobKey(w) \notin DOMAIN query_cache
       THEN Finish(w, "error", NoResponse, "lookup_error")
       ELSE IF (now - query_cache[JobKey(w)].timestamp) * 60 * 60 < CACHE_TTL
            THEN Finish(w, "ok", [query_cache[JobKey(w)].response EXCEPT !.cached = TRUE],
                        "cache_hit")
            ELSE SetPc(w, "lookup_del") /\ UNCHANGED job
    /\ UNCHANGED <<query_cache, qa_history, corpusVars, encoderVars, notRag>>

\* get_cached_response line 114: del _query_cache[key], which raises
\* KeyError when another thread has deleted the key
LookupDelete(w) ==
    /\ pc[w] = "lookup_del"
    /\ IF JobKey(w) \in DOMAIN query_cache
       THEN /\ query_cache' = Del(query_cache, {JobKey(w)})
            /\ Goto(w, "dense", "cache_expired")
            /\ UNCHANGED job
       ELSE /\ Finish(w, "error", NoResponse, "lookup_error")
            /\ UNCHANGED query_cache
    /\ UNCHANGED <<qa_history, corpusVars, encoderVars, notRag>>

\* POST /ask/stream: worker w enters generate() for the user user_id
StreamStart(w, question, user_id, top_k, alpha10) ==
    /\ pc[w] = "idle"
    /\ pc' = [pc EXCEPT ![w] = "dense"]
    /\ stages' = [stages EXCEPT ![w] = <<>>]
    /\ job' = [job EXCEPT ![w] = [IdleJob EXCEPT !.question = question, !.user_id = user_id,
                                                  !.top_k = top_k, !.alpha10 = alpha10,
                                                  !.caller = "stream"]]
    /\ UNCHANGED <<query_cache, qa_history, corpusVars, encoderVars, notRag>>

\* The user_id hybrid_search is called with: ask passes its user, the
\* streaming endpoint passes none.
SearchUser(w) == IF job[w].caller = "ask" THEN job[w].user_id ELSE "none"

\* hybrid_search line 335: dense_search, whose embed_text call may raise
AskDenseSearch(w) ==
    /\ pc[w] = "dense"
    /\ \/ \E d \in DenseRankings(SearchUser(w)) :
             /\ job' = [job EXCEPT ![w].dense = d]
             /\ Goto(w, "sparse", "dense_search")
       \/ Finish(w, "error", NoResponse, "dense_search_error")
    /\ UNCHANGED <<query_cache, qa_history, corpusVars, encoderVars, notRag>>

\* hybrid_search line 336: sparse_search
AskSparseSearch(w) ==
    /\ pc[w] = "sparse"
    /\ \E s \in SparseRankings(SearchUser(w)) : job' = [job EXCEPT ![w].sparse = s]
    /\ Goto(w, "fuse", "sparse_search")
    /\ UNCHANGED <<query_cache, qa_history, corpusVars, encoderVars, notRag>>

\* hybrid_search lines 338-373, called with the rankings dense_search and
\* sparse_search returned
HybridSearch(w) ==
    /\ pc[w] = "hybrid"
    /\ job' = [job EXCEPT ![w].fused = hybrid_search(job[w].dense, job[w].sparse,
                                                     job[w].alpha10, job[w].top_k),
                          ![w].outcome = "ok"]
    /\ SetPc(w, "idle")
    /\ UNCHANGED <<query_cache, qa_history, corpusVars, encoderVars, notRag>>

\* A faulty ask that caches the no-results answer before returning it.
AskFuseCachingNoResults(w) ==
    /\ pc[w] = "fuse"
    /\ LET fused == hybrid_search(job[w].dense, job[w].sparse, job[w].alpha10, 20)
           search_results == [i \in 1..Len(fused) |-> fused[i].chunk_id]
       IN IF search_results = <<>>
          THEN /\ Finish(w, "ok", NoDocuments, "no_results")
               /\ query_cache' = cache_response(query_cache, job[w].question, job[w].user_id,
                                                NoDocuments, now)
          ELSE /\ job' = [job EXCEPT ![w].results = search_results]
               /\ Goto(w, "rerank", "fuse")
               /\ UNCHANGED query_cache
    /\ UNCHANGED <<qa_history, corpusVars, encoderVars, notRag>>

\* hybrid_search lines 338-373 (ask calls it with top_k = 20), and the
\* no-results return of ask
AskFuse(w) ==
    /\ pc[w] = "fuse"
    /\ LET fused == hybrid_search(job[w].dense, job[w].sparse, job[w].alpha10, 20)
           search_results == [i \in 1..Len(fused) |-> fused[i].chunk_id]
       IN IF search_results = <<>>
          THEN Finish(w, "ok", NoDocuments, "no_results")
          ELSE /\ job' = [job EXCEPT ![w].results = search_results]
               /\ Goto(w, "rerank", "fuse")
    /\ UNCHANGED <<query_cache, qa_history, corpusVars, encoderVars, notRag>>

\* rerank has its ranking: ask and the streaming endpoint go on to build the
\* context, a direct call returns.
EndRerank(w, reranked) ==
    IF job[w].caller \in {"ask", "stream"}
    THEN /\ job' = [job EXCEPT ![w].reranked = reranked]
         /\ Goto(w, "context", "rerank")
    ELSE /\ job' = [job EXCEPT ![w].reranked = reranked, ![w].outcome = "ok"]
         /\ Goto(w, "idle", "rerank")

\* rerank line 377 with m the value the property cross_encoder returned
RerankWith(w, m) ==
    IF m = None \/ job[w].results = <<>>
    THEN EndRerank(w, Truncate(job[w].results, job[w].top_k))
    ELSE SetPc(w, "predict") /\ UNCHANGED job

\* A worker calls rerank on the results of a search.
RerankStart(w, results, top_k) ==
    /\ pc[w] = "idle"
    /\ pc' = [pc EXCEPT ![w] = "rerank"]
    /\ stages' = [stages EXCEPT ![w] = <<>>]
    /\ job' = [job EXCEPT ![w] = [IdleJob EXCEPT !.results = results, !.top_k = top_k,
                                                  !.caller = "rerank"]]
    /\ UNCHANGED <<query_cache, qa_history, corpusVars, encoderVars, notRag>>

\* rerank line 377 reads the property cross_encoder: line 82 tests the
\* flag, and with the flag set line 92 returns the class attribute
CrossEncoderCheck(w) ==
    /\ pc[w] = "rerank"
    /\ IF ~cross_encoder_loaded
       THEN SetPc(w, "ce_set") /\ UNCHANGED job
       ELSE RerankWith(w, cross_encoder)
    /\ UNCHANGED <<query_cache, qa_history, corpusVars, encoderVars, notRag>>

\* cross_encoder line 83: RAGService._cross_encoder_loaded = True
CrossEncoderSetFlag(w) ==
    /\ pc[w] = "ce_set"
    /\ cross_encoder_loaded' = TRUE
    /\ SetPc(w, "ce_load")
    /\ UNCHANGED <<cross_encoder, load_attempts, job, query_cache, qa_history, corpusVars,
                   notRag>>

\* cross_encoder lines 84-91: CrossEncoder(...) gives the model or raises
CrossEncoderLoad(w) ==
    /\ pc[w] = "ce_load"
    /\ load_attempts' = load_attempts + 1
    /\ cross_encoder' \in {"model", None}
    /\ SetPc(w, "ce_return")
    /\ UNCHANGED <<cross_encoder_loaded, job, query_cache, qa_history, corpusVars, notRag>>

\* cross_encoder line 92, after a load: return RAGService._cross_encoder
CrossEncoderReturn(w) ==
    /\ pc[w] = "ce_return"
    /\ RerankWith(w, cross_encoder)
    /\ UNCHANGED <<query_cache, qa_history, corpusVars, encoderVars, notRag>>

\* rerank lines 381-393: the property is read again for predict, whose
\* scores put the results in any order; predict may raise
RerankPredict(w) ==
    /\ pc[w] = "predict"
    /\ \/ /\ cross_encoder # None
          /\ \E order \in Perms(Range(job[w].results)) :
                EndRerank(w, Truncate(order, job[w].top_k))
       \/ Finish(w, "error", NoResponse, "rerank_error")
    /\ UNCHANGED <<query_cache, qa_history, corpusVars, encoderVars, notRag>>

\* ask line 515 and generate() line 83: build_context
AskBuildContext(w) ==
    /\ pc[w] = "context"
    /\ job' = [job EXCEPT ![w].citations = job[w].reranked]
    /\ Goto(w, IF job[w].caller = "stream" THEN "stream" ELSE "generate", "build_context")
    /\ UNCHANGED <<query_cache, qa_history, corpusVars, encoderVars, notRag>>

GenAnswers == {"x", "y"}

\* A faulty ask that writes the cache right after generation, with no QA
\* record persisted.
AskGenerateSkippingPersist(w) ==
    /\ pc[w] = "generate"
    /\ \E a \in GenAnswers :
          /\ job' = [job EXCEPT ![w].answer = a]
          /\ Goto(w, "cache_write", "generate")
    /\ UNCHANGED <<query_cache, qa_history, corpusVars, encoderVars, notRag>>

\* A faulty ask that caches an apology when generation fails.
AskGenerateCachingFailure(w) ==
    /\ pc[w] = "generate"
    /\ \/ /\ \E a \in GenAnswers :
                /\ job' = [job EXCEPT ![w].answer = a]
                /\ Goto(w, "persist", "generate")
          /\ UNCHANGED query_cache
       \/ /\ Finish(w, "error", NoResponse, "generate_error")
          /\ query_cache' = cache_response(query_cache, job[w].question, job[w].user_id,
                                           NoDocuments, now)
    /\ UNCHANGED <<qa_history, corpusVars, encoderVars, notRag>>

\* ask line 518: generate_answer returns the model's answer or raises
AskGenerate(w) ==
    /\ pc[w] = "generate"
    /\ \/ \E a \in GenAnswers :
             /\ job' = [job EXCEPT ![w].answer = a]
             /\ Goto(w, "persist", "generate")
       \/ Finish(w, "error", NoResponse, "generate_error")
    /\ UNCHANGED <<query_cache, qa_history, corpusVars, encoderVars, notRag>>

\* generate() lines 85-111: the answer is streamed to its last line and the
\* citations follow, or the call or the stream fails and the error is sent
StreamGenerate(w) ==
    /\ pc[w] = "stream"
    /\ \/ \E a \in GenAnswers :
             Finish(w, "ok", [answer |-> a, citations |-> job[w].citations, qa_id |-> 0,
                              cached |-> FALSE], "stream_complete")
       \/ Finish(w, "error", NoResponse, "generate_error")
    /\ UNCHANGED <<query_cache, qa_history, corpusVars, encoderVars, notRag>>

\* ask lines 523-543: the QAHistory row is added and committed
AskPersist(w) ==
    /\ pc[w] = "persist"
    /\ qa_history' = Append(qa_history,
                            [user_id |-> job[w].user_id, question |-> job[w].question,
                             answer |-> job[w].answer, citations |-> job[w].citations,
                             context_chunks |-> job[w].reranked])
    /\ job' = [job EXCEPT ![w].qa_id = Len(qa_history) + 1]
    /\ Goto(w, "cache_write", "persist")
    /\ UNCHANGED <<query_cache, corpusVars, encoderVars, notRag>>

\* The response ask builds at lines 545-560.
AskResponse(w) ==
    [answer |-> job[w].answer, citations |-> job[w].citations, qa_id |-> job[w].qa_id,
     cached |-> FALSE]

\* ask line 563: cache_response
AskCacheWrite(w) ==
    /\ pc[w] = "cache_write"
    /\ query_cache' = cache_response(query_cache, job[w].question, job[w].user_id,
                                     AskResponse(w), now)
    /\ Goto(w, "return", "cache_write")
    /\ UNCHANGED <<job, qa_history, corpusVars, encoderVars, notRag>>

\* ask line 565: return response
AskReturn(w) ==
    /\ pc[w] = "return"
    /\ Finish(w, "ok", AskResponse(w), "return")
    /\ UNCHANGED <<query_cache, qa_history, corpusVars, encoderVars, notRag>>

\* Time passes while the service runs: d hours.
Tick(d) ==
    /\ now' = now + d
    /\ UNCHANGED <<chunkVars, semVars, ragVars>>
\* ------------------------------------------------------------- delete
\* The documents of the corpus: d1 is u1's and has the chunks Chunks, d2 is
\* u2's and has OtherChunks.
Documents == {"d1", "d2"}
DocumentChunks(d) == IF d = "d1" THEN Chunks ELSE OtherChunks

\* DELETE /documents/<d> by its owner or an admin: delete_document_embeddings
\* (an error of collection.delete is logged and swallowed), then
\* IngestService.delete_document, whose delete cascades to the Chunk rows.
\* The response cache _query_cache is not touched.
DeleteDocument(d) ==
    /\ DocumentChunks(d) \cap chunk_store # {}
    /\ vector_store' \in {vector_store \ DocumentChunks(d), vector_store}
    /\ chunk_store' = chunk_store \ DocumentChunks(d)
    /\ UNCHANGED <<query_cache, qa_history, encoderVars, pc, job, stages, notRag>>

\* ------------------------------------------------------------- documents
\* max_retries of the task process_document
MAX_RETRIES == 3

notDoc == <<content, chunk_size, chunk_overlap, chunks, chunked, snippetVars, authVars, now,
            semVars, ragVars>>

\* enumerate(chunks): the chunk_index values 0..n-1
ChunkIndexes(n) == [i \in 1..n |-> i - 1]

\* The committed rows of the document: the Document row and its Chunk rows.
Doc ==
    [status |-> doc_status, rows |-> chunk_rows, embedded |-> row_embedded,
     vector |-> row_vector, chunk_count |-> chunk_count, error_message |-> error_message]

\* The rows d are committed.
SetDoc(d) ==
    /\ doc_status' = d.status
    /\ chunk_rows' = d.rows
    /\ row_embedded' = d.embedded
    /\ row_vector' = d.vector
    /\ chunk_count' = d.chunk_count
    /\ error_message' = d.error_message

\* IngestService.process_document on the document d: text extraction
\* raises, which leaves the rows, sets the status FAILED and the message and
\* raises again, or the chunks of the file's text are added behind the rows
\* there are and the status is PROCESSED.
process_document(d) ==
    LET n == Len(chunk_text(content, chunk_size, chunk_overlap))
    IN {[doc |-> [d EXCEPT !.status = "failed", !.error_message = TRUE],
         process |-> "extract_failed"],
        [doc |-> [d EXCEPT !.status = "processed",
                           !.rows = @ \o ChunkIndexes(n),
                           !.embedded = @ \o [i \in 1..n |-> FALSE],
                           !.vector = @ \o [i \in 1..n |-> FALSE],
                           !.chunk_count = n],
         process |-> "ok"]}

\* RAGService.embed_chunks on all the rows of the document d: embed_text
\* raises, collection.add raises, the commit behind the add raises, or the
\* vectors are added and embedding_id is committed for every row.
embed_chunks(d) ==
    IF d.rows = <<>> THEN {[doc |-> d, embed |-> "ok"]}
    ELSE LET ids == [i \in 1..Len(d.rows) |-> TRUE]
         IN {[doc |-> d, embed |-> "embedding_failed"],
             [doc |-> d, embed |-> "add_failed"],
             [doc |-> [d EXCEPT !.vector = ids], embed |-> "commit_failed"],
             [doc |-> [d EXCEPT !.vector = ids, !.embedded = ids], embed |-> "ok"]}

\* RAGService.delete_document_embeddings: the vectors of the rows with an
\* embedding_id are deleted, or collection.delete raises and the error is
\* logged; embedding_id stays as it is.
delete_document_embeddings(d) ==
    IF \A i \in 1..Len(d.rows) : ~d.embedded[i] THEN {d}
    ELSE {d, [d EXCEPT !.vector = [i \in 1..Len(d.rows) |-> d.vector[i] /\ ~d.embedded[i]]]}

\* process_document and, when it did not raise, embed_chunks on the rows the
\* document then has: what the two calls leave and how they went.
ProcessAndEmbed(d) ==
    UNION {IF p.process = "ok"
           THEN {[doc |-> e.doc, process |-> "ok", embed |-> e.embed,
                  raised |-> e.embed # "ok"] : e \in embed_chunks(p.doc)}
           ELSE {[doc |-> p.doc, process |-> p.process, embed |-> "none", raised |-> TRUE]}
           : p \in process_document(d)}

\* The operation op ended as o.
Ran(op, o) ==
    /\ SetDoc(o.doc)
    /\ last_run' = [op |-> op, process |-> o.process, embed |-> o.embed, raised |-> o.raised]

\* A document just saved by save_uploaded_file.
NewDoc ==
    [status |-> "pending", rows |-> <<>>, embedded |-> <<>>, vector |-> <<>>,
     chunk_count |-> 0, error_message |-> FALSE]

\* POST /documents: the file is saved and processed in the request; what
\* process_document or embed_chunks raises is dropped
UploadDocument ==
    /\ doc_status = "none"
    /\ \E o \in ProcessAndEmbed(NewDoc) : Ran("upload", o)
    /\ UNCHANGED <<task_queued, task_retries, notDoc>>

\* POST /documents/<id>/reprocess: the embeddings are deleted and the
\* document is processed again
ApiReprocess ==
    /\ doc_status # "none"
    /\ \E d \in delete_document_embeddings(Doc) :
          \E o \in ProcessAndEmbed(d) : Ran("api_reprocess", o)
    /\ UNCHANGED <<task_queued, task_retries, notDoc>>

\* process_document.delay(document_id): a run of the task is due
QueueProcess ==
    /\ doc_status # "none"
    /\ ~task_queued
    /\ task_queued' = TRUE
    /\ task_retries' = 0
    /\ UNCHANGED <<doc_status, chunk_rows, row_embedded, row_vector, chunk_count,
                   error_message, last_run, notDoc>>

\* A run of the task process_document: the document is processed and its
\* chunks are embedded; when either raises, self.retry queues the run again
\* until max_retries is used up
TaskProcess ==
    /\ task_queued
    /\ \E o \in ProcessAndEmbed(Doc) :
          /\ Ran("task_process", o)
          /\ IF o.raised /\ task_retries < MAX_RETRIES
             THEN task_queued' = TRUE /\ task_retries' = task_retries + 1
             ELSE task_queued' = FALSE /\ UNCHANGED task_retries
    /\ UNCHANGED notDoc

\* The task reprocess_document: the embeddings and the Chunk rows of the
\* document are deleted, then it is processed again
TaskReprocess ==
    /\ doc_status # "none"
    /\ \E o \in ProcessAndEmbed([Doc EXCEPT !.rows = <<>>, !.embedded = <<>>,
                                             !.vector = <<>>]) :
          Ran("task_reprocess", o)
    /\ UNCHANGED <<task_queued, task_retries, notDoc>>

\* ------------------------------------------------------------- citations
\* The length build_context cuts a snippet at.
SnippetCut == 200

Ellipsis == <<".", ".", ".">>

\* build_context line 419:
\* result.text[:200] + "..." if len(result.text) > 200 else result.text
snippet(text) ==
    IF Len(text) > SnippetCut THEN SubSeq(text, 1, SnippetCut) \o Ellipsis ELSE text

\* build_context builds the citation of the search result
BuildCitation ==
    /\ ~snippet_built
    /\ text_snippet' = snippet(result_text)
    /\ snippet_built' = TRUE
    /\ UNCHANGED <<result_text, content, chunk_size, chunk_overlap, chunks, chunked, docVars,
                   authVars, now, semVars, ragVars>>

\* ------------------------------------------------------------- auth
\* settings.JWT_ACCESS_TOKEN_EXPIRES, in seconds
JWT_ACCESS_TOKEN_EXPIRES == 3600

AuthUsers == {"a1", "u1"}
Roles == {"admin", "editor", "viewer"}

notAuth == <<content, chunk_size, chunk_overlap, chunks, chunked, docVars, snippetVars, semVars,
             ragVars>>

\* The clock in seconds.
Seconds == now * 60 * 60

\* jwt_required(): the token is accepted while it has not expired; no
\* token_in_blocklist_loader is registered with the JWTManager, so neither
\* the RevokedToken rows nor token_blacklist are looked at.
Authenticated(t) == Seconds < t.exp

\* The request of kind kind made with token jti was answered status.
Respond(kind, jti, status) ==
    last_request' = [kind |-> kind, jti |-> jti, status |-> status]

\* POST /auth/login with the right password: AuthService.login and
\* create_tokens, which copies the user's role into the token
Login(u) ==
    /\ IF user_active[u]
       THEN LET jti == Cardinality(access_tokens) + 1
            IN /\ access_tokens' = access_tokens \cup {[jti |-> jti, user_id |-> u, role |-> user_role[u],
                                          exp |-> Seconds + JWT_ACCESS_TOKEN_EXPIRES]}
               /\ audit_log' = audit_log + 1
               /\ Respond("login", jti, 200)
       ELSE /\ Respond("login", 0, 401)
            /\ UNCHANGED <<access_tokens, audit_log>>
    /\ UNCHANGED <<user_role, user_active, revoked_tokens, token_blacklist, now, notAuth>>

\* PUT /admin/users/<target> with token t and the body data, in which
\* None stands for a field left out: the role is read from the token's claims
UpdateUser(t, target, data) ==
    /\ IF ~Authenticated(t)
       THEN /\ Respond("update_user", t.jti, 401)
            /\ UNCHANGED <<user_role, user_active, audit_log>>
       ELSE IF t.role # "admin"
            THEN /\ Respond("update_user", t.jti, 403)
                 /\ UNCHANGED <<user_role, user_active, audit_log>>
            ELSE /\ user_role' = IF data.role # None
                                 THEN [user_role EXCEPT ![target] = data.role]
                                 ELSE user_role
                 /\ user_active' = IF data.is_active # None
                                   THEN [user_active EXCEPT ![target] = (data.is_active = "true")]
                                   ELSE user_active
                 /\ audit_log' = audit_log + 1
                 /\ Respond("update_user", t.jti, 200)
    /\ UNCHANGED <<access_tokens, revoked_tokens, token_blacklist, now, notAuth>>

\* GET /admin/stats with token t
GetStats(t) ==
    /\ Respond("stats", t.jti,
                 IF ~Authenticated(t) THEN 401 ELSE IF t.role # "admin" THEN 403 ELSE 200)
    /\ UNCHANGED <<user_role, user_active, access_tokens, revoked_tokens, token_blacklist, audit_log,
                   now, notAuth>>

\* POST /auth/logout with token t: AuthService.logout
Logout(t) ==
    /\ IF Authenticated(t)
       THEN /\ revoked_tokens' = revoked_tokens \cup {[jti |-> t.jti, expires_at |-> t.exp]}
            /\ token_blacklist' = token_blacklist \cup {t.jti}
            /\ audit_log' = audit_log + 1
            /\ Respond("logout", t.jti, 200)
       ELSE /\ Respond("logout", t.jti, 401)
            /\ UNCHANGED <<revoked_tokens, token_blacklist, audit_log>>
    /\ UNCHANGED <<user_role, user_active, access_tokens, now, notAuth>>

\* GET /auth/me with token t
GetCurrentUser(t) ==
    /\ Respond("me", t.jti, IF Authenticated(t) THEN 200 ELSE 401)
    /\ UNCHANGED <<user_role, user_active, access_tokens, revoked_tokens, token_blacklist, audit_log,
                   now, notAuth>>

\* The task cleanup_revoked_tokens: the rows of expired access_tokens are deleted
CleanupRevokedTokens ==
    /\ revoked_tokens' = {r \in revoked_tokens : ~(r.expires_at < Seconds)}
    /\ UNCHANGED <<user_role, user_active, access_tokens, token_blacklist, audit_log, last_request,
                   now, notAuth>>

\* The texts an item can have: every token sequence up to MaxItemTokens,
\* words written 1 here and tagged with the item's position by MkItem.
ItemShapes == UNION {[1..n -> {0, 1}] : n \in 0..MaxItemTokens}

\* Item i as _extract_text_file yields it: no page, paragraph i.
MkItem(shape, i) ==
    [text |-> [j \in 1..Len(shape) |-> IF shape[j] = Terminator THEN Terminator ELSE i],
     page |-> None, paragraph |-> i]

\* The item lists of n items.
Contents(n) == {[i \in 1..n |-> MkItem(shapes[i], i)] : shapes \in [1..n -> ItemShapes]}

\* No document has been uploaded.
IdleDoc ==
    /\ doc_status = "none"
    /\ chunk_rows = <<>>
    /\ row_embedded = <<>>
    /\ row_vector = <<>>
    /\ chunk_count = 0
    /\ error_message = FALSE
    /\ last_run = [op |-> "none", process |-> "none", embed |-> "none", raised |-> FALSE]
    /\ task_queued = FALSE
    /\ task_retries = 0

\* No citation is being built.
IdleSnippet ==
    /\ result_text = <<>>
    /\ text_snippet = <<>>
    /\ snippet_built = FALSE

\* The users seed_db leaves: the admin a1 and the viewer
\* u1, nobody logged in.
IdleAuth ==
    /\ user_role = [u \in {"a1", "u1"} |-> IF u = "a1" THEN "admin" ELSE "viewer"]
    /\ user_active = [u \in {"a1", "u1"} |-> TRUE]
    /\ access_tokens = {}
    /\ revoked_tokens = {}
    /\ token_blacklist = {}
    /\ audit_log = 0
    /\ last_request = [kind |-> "none", jti |-> 0, status |-> 0]

IdleChunk ==
    /\ IdleSnippet
    /\ IdleAuth
    /\ content = <<>>
    /\ chunk_size = 1
    /\ chunk_overlap = 0
    /\ chunks = <<>>
    /\ chunked = FALSE
    /\ IdleDoc

InitChunk ==
    /\ IdleClock /\ IdleSem /\ IdleRag
    /\ \E n \in 0..MaxItems : content \in Contents(n)
    /\ chunk_size \in 1..MaxChunkSize
    /\ chunk_overlap \in 0..(chunk_size - 1)
    /\ chunks = <<>>
    /\ chunked = FALSE
    /\ IdleDoc
    /\ IdleSnippet
    /\ IdleAuth

\* process_document line 106: chunks = self._chunk_text(text_content, ...)
ChunkText ==
    /\ ~chunked
    /\ chunks' = chunk_text(content, chunk_size, chunk_overlap)
    /\ chunked' = TRUE
    /\ UNCHANGED <<content, chunk_size, chunk_overlap, docVars, snippetVars, authVars, now,
                   semVars, ragVars>>

NextChunk == ChunkText

SpecChunk == InitChunk /\ [][NextChunk]_vars

\* ------------------------------------------------------------- SpecCache
\* The semantic cache under a small workload: it starts empty, with a size
\* limit of 1.
MaxHours == 24
AdvanceStep == 12
MaxSets == 3

CacheQuestions == {<<"a">>, <<"A", " ">>, <<"b">>}
QueryQuestions == CacheQuestions \cup {<<"z">>}
Answers == {"x", "y"}
SetEmbeddings == {NoEmbedding, <<10, 0>>, <<10, 3>>}
QueryEmbeddings == {NoEmbedding, <<10, 0>>, <<10, 5>>}

InitCache ==
    /\ IdleClock /\ IdleChunk /\ IdleRag
    /\ invalidated = {}
    /\ last_set = <<>>
    /\ last_get = NoRet
    /\ set_calls = 0
    /\ max_cache_size = 1
    /\ redis_kv = EmptyKv
    /\ cache_index = <<>>

NextCache ==
    \/ \E q \in CacheQuestions, a \in Answers, e \in SetEmbeddings :
          set_calls < MaxSets /\ SemSet(q, a, e)
    \/ \E q \in QueryQuestions, e \in QueryEmbeddings : SemGet(q, e)
    \/ \E q \in CacheQuestions : SemInvalidate(q)
    \/ SemInvalidateAll
    \/ now + AdvanceStep <= MaxHours /\ Advance(AdvanceStep)

SpecCache == InitCache /\ [][NextCache]_vars

\* ------------------------------------------------------------- SpecPrune
\* The semantic cache at its size limit: after WarmEntries writes of distinct
\* questions with embeddings, with max_cache_size = WarmEntries.
WarmEntries == 9
MaxPruneSets == 2

WarmNames == <<"a", "c", "d", "e", "f", "g", "h", "i", "j", "l", "m", "n">>
WarmEmbedding == <<0, 10>>

RECURSIVE WarmCache(_, _)
WarmCache(n, max) ==
    IF n = 0 THEN [kv |-> EmptyKv, index |-> <<>>]
    ELSE LET prev == WarmCache(n - 1, max)
         IN CHOOSE p \in cache_set(prev.kv, prev.index, max, <<WarmNames[n]>>, "w",
                                    WarmEmbedding, 0) : TRUE

PruneQuestions == {<<"a">>, <<"b">>}
PruneEmbeddings == {NoEmbedding, <<10, 0>>}

InitPrune ==
    /\ IdleClock /\ IdleChunk /\ IdleRag
    /\ invalidated = {}
    /\ last_set = <<>>
    /\ last_get = NoRet
    /\ set_calls = 0
    /\ max_cache_size = WarmEntries
    /\ redis_kv = WarmCache(WarmEntries, WarmEntries).kv
    /\ cache_index = WarmCache(WarmEntries, WarmEntries).index

NextPrune ==
    \/ \E q \in PruneQuestions, e \in PruneEmbeddings :
          set_calls < MaxPruneSets /\ SemSet(q, "x", e)
    \/ \E q \in PruneQuestions, e \in PruneEmbeddings : SemGet(q, e)

SpecPrune == InitPrune /\ [][NextPrune]_vars

\* ------------------------------------------------------------- Spec
\* The orchestrator: one worker answers questions of two users over a
\* corpus that grows, while the clock runs past the response cache's TTL.
MaxHistory == 2
MaxAskHours == 1

AskQuestions == {<<"a">>, <<"A", " ">>}
Users == {"u1", "u2"}
AskWorkers == {"w1"}
TopKs == {1}
Alphas == {7}

Init == IdleClock /\ IdleChunk /\ IdleSem /\ IdleRag

Next ==
    \/ \E c \in Chunks : StoreChunk(c)
    \/ \E c \in Chunks : EmbedChunk(c)
    \/ \E w \in AskWorkers, q \in AskQuestions, u \in Users, k \in TopKs, a \in Alphas :
          Len(qa_history) < MaxHistory /\ AskStart(w, q, u, k, a)
    \/ \E w \in AskWorkers : AskCacheLookup(w)
    \/ \E w \in AskWorkers : AskDenseSearch(w)
    \/ \E w \in AskWorkers : AskSparseSearch(w)
    \/ \E w \in AskWorkers : AskFuse(w)
    \/ \E w \in AskWorkers : CrossEncoderCheck(w)
    \/ \E w \in AskWorkers : CrossEncoderSetFlag(w)
    \/ \E w \in AskWorkers : CrossEncoderLoad(w)
    \/ \E w \in AskWorkers : CrossEncoderReturn(w)
    \/ \E w \in AskWorkers : RerankPredict(w)
    \/ \E w \in AskWorkers : AskBuildContext(w)
    \/ \E w \in AskWorkers : AskGenerate(w)
    \/ \E w \in AskWorkers : AskPersist(w)
    \/ \E w \in AskWorkers : AskCacheWrite(w)
    \/ \E w \in AskWorkers : AskReturn(w)
    \/ now + 1 <= MaxAskHours /\ Tick(1)

Spec == Init /\ [][Next]_vars

\* ------------------------------------------------------------- SpecRerank
\* The workers of one process rerank search results (as the streaming
\* endpoint does) and so use the relevance model concurrently.
RerankInputs == {<<>>, <<1, 2>>}

InitRerank == IdleClock /\ IdleChunk /\ IdleSem /\ IdleRag

NextRerank ==
    \/ \E w \in Workers, r \in RerankInputs : RerankStart(w, r, 1)
    \/ \E w \in Workers : CrossEncoderCheck(w)
    \/ \E w \in Workers : CrossEncoderSetFlag(w)
    \/ \E w \in Workers : CrossEncoderLoad(w)
    \/ \E w \in Workers : CrossEncoderReturn(w)
    \/ \E w \in Workers : RerankPredict(w)

SpecRerank == InitRerank /\ [][NextRerank]_vars

\* ------------------------------------------------------------- SpecFuse
\* hybrid_search on every pair of rankings of at most MaxFuseChunks chunks,
\* with alpha in tenths from 0 to 1.
MaxFuseChunks == 3

FuseChunks == 1..MaxFuseChunks
Rankings == UNION {Perms(S) : S \in SUBSET FuseChunks}
FuseAlphas == 0..10
FuseTopKs == {1, 2, 20}

InitFuse ==
    /\ IdleClock /\ IdleChunk /\ IdleSem
    /\ query_cache = EmptyKv
    /\ qa_history = <<>>
    /\ chunk_store = {}
    /\ vector_store = {}
    /\ cross_encoder_loaded = FALSE
    /\ cross_encoder = None
    /\ load_attempts = 0
    /\ stages = [w \in Workers |-> <<>>]
    /\ pc = [w \in Workers |-> IF w = "w1" THEN "hybrid" ELSE "idle"]
    /\ \E dense \in Rankings, sparse \in Rankings, alpha10 \in FuseAlphas, top_k \in FuseTopKs :
          job = [w \in Workers |->
                    IF w = "w1"
                    THEN [IdleJob EXCEPT !.dense = dense, !.sparse = sparse,
                                         !.alpha10 = alpha10, !.top_k = top_k,
                                         !.caller = "hybrid_search"]
                    ELSE IdleJob]

NextFuse == \E w \in Workers : HybridSearch(w)

SpecFuse == InitFuse /\ [][NextFuse]_vars

\* ------------------------------------------------------------- SpecStream
\* The streaming endpoint: one worker streams answers to two users while
\* both users' documents are processed.
AllChunks == Chunks \cup OtherChunks

InitStream == IdleClock /\ IdleChunk /\ IdleSem /\ IdleRag

NextStream ==
    \/ \E c \in AllChunks : StoreChunk(c)
    \/ \E c \in AllChunks : EmbedChunk(c)
    \/ \E w \in AskWorkers, q \in AskQuestions, u \in Users, k \in TopKs, a \in Alphas :
          StreamStart(w, q, u, k, a)
    \/ \E w \in AskWorkers : AskDenseSearch(w)
    \/ \E w \in AskWorkers : AskSparseSearch(w)
    \/ \E w \in AskWorkers : AskFuse(w)
    \/ \E w \in AskWorkers : CrossEncoderCheck(w)
    \/ \E w \in AskWorkers : CrossEncoderSetFlag(w)
    \/ \E w \in AskWorkers : CrossEncoderLoad(w)
    \/ \E w \in AskWorkers : CrossEncoderReturn(w)
    \/ \E w \in AskWorkers : RerankPredict(w)
    \/ \E w \in AskWorkers : AskBuildContext(w)
    \/ \E w \in AskWorkers : StreamGenerate(w)

SpecStream == InitStream /\ [][NextStream]_vars

\* ------------------------------------------------------------- SpecDoc
\* One document is uploaded, processed and reprocessed, by the API and by
\* the worker's tasks.
MaxDocItems == 3
MaxRows == 4

\* The files: n paragraphs of one word each.
DocContents == {[i \in 1..n |-> MkItem(<<1>>, i)] : n \in 0..MaxDocItems}

InitDoc ==
    /\ IdleClock /\ IdleSem /\ IdleRag /\ IdleDoc /\ IdleSnippet /\ IdleAuth
    /\ content \in DocContents
    /\ chunk_size = 1
    /\ chunk_overlap = 0
    /\ chunks = <<>>
    /\ chunked = FALSE

NextDoc ==
    \/ UploadDocument
    \/ Len(chunk_rows) < MaxRows /\ ApiReprocess
    \/ QueueProcess
    \/ Len(chunk_rows) < MaxRows /\ TaskProcess
    \/ TaskReprocess

SpecDoc == InitDoc /\ [][NextDoc]_vars

\* ------------------------------------------------------------- SpecRace
\* Two threads of one process answer the same question of one user; the
\* process has answered it before or not, and its one attempt to load the
\* relevance model has failed.
RaceWorkers == {"w1", "w2"}

\* The answer an earlier call gave, as persisted and as cached.
EarlierRecord ==
    [user_id |-> "u1", question |-> <<"a">>, answer |-> "x", citations |-> <<1>>,
     context_chunks |-> <<1>>]
EarlierResponse == [answer |-> "x", citations |-> <<1>>, qa_id |-> 1, cached |-> FALSE]

InitRace ==
    /\ IdleClock /\ IdleChunk /\ IdleSem
    /\ \/ query_cache = EmptyKv /\ qa_history = <<>>
       \/ /\ query_cache = cache_response(EmptyKv, <<"a">>, "u1", EarlierResponse, 0)
          /\ qa_history = <<EarlierRecord>>
    /\ chunk_store = {1}
    /\ vector_store = {1}
    /\ cross_encoder_loaded = TRUE
    /\ cross_encoder = None
    /\ load_attempts = 1
    /\ pc = [w \in Workers |-> "idle"]
    /\ job = [w \in Workers |-> IdleJob]
    /\ stages = [w \in Workers |-> <<>>]

NextRace ==
    \/ \E w \in RaceWorkers, q \in AskQuestions, k \in TopKs, a \in Alphas :
          Len(qa_history) < MaxHistory /\ AskStart(w, q, "u1", k, a)
    \/ \E w \in RaceWorkers : LookupTest(w)
    \/ \E w \in RaceWorkers : LookupRead(w)
    \/ \E w \in RaceWorkers : LookupDelete(w)
    \/ \E w \in RaceWorkers : AskDenseSearch(w)
    \/ \E w \in RaceWorkers : AskSparseSearch(w)
    \/ \E w \in RaceWorkers : AskFuse(w)
    \/ \E w \in RaceWorkers : CrossEncoderCheck(w)
    \/ \E w \in RaceWorkers : AskBuildContext(w)
    \/ \E w \in RaceWorkers : AskGenerate(w)
    \/ \E w \in RaceWorkers : AskPersist(w)
    \/ \E w \in RaceWorkers : AskCacheWrite(w)
    \/ \E w \in RaceWorkers : AskReturn(w)
    \/ now + 1 <= MaxAskHours /\ Tick(1)

SpecRace == InitRace /\ [][NextRace]_vars

\* ------------------------------------------------------------- SpecSnippet
\* build_context on one search result whose text has any length up to
\* MaxTextLen characters.
MaxTextLen == 204

InitSnippet ==
    /\ IdleClock /\ IdleSem /\ IdleRag /\ IdleDoc /\ IdleAuth
    /\ content = <<>>
    /\ chunk_size = 1
    /\ chunk_overlap = 0
    /\ chunks = <<>>
    /\ chunked = FALSE
    /\ \E n \in 0..MaxTextLen : result_text = [i \in 1..n |-> "a"]
    /\ text_snippet = <<>>
    /\ snippet_built = FALSE

NextSnippet == BuildCitation

SpecSnippet == InitSnippet /\ [][NextSnippet]_vars

\* ------------------------------------------------------------- SpecAuth
\* The admin and a viewer log in, use admin and user endpoints, change
\* roles and log out while the clock runs past the tokens' expiry.
MaxTokens == 2
MaxAudit == 4
MaxAuthHours == 2

\* The bodies of PUT /admin/users/<id>.
UpdateBodies ==
    {[role |-> r, is_active |-> a] : r \in Roles \cup {None}, a \in {"true", "false", None}}

InitAuth ==
    /\ IdleClock /\ IdleSem /\ IdleRag /\ IdleDoc /\ IdleSnippet /\ IdleAuth
    /\ content = <<>>
    /\ chunk_size = 1
    /\ chunk_overlap = 0
    /\ chunks = <<>>
    /\ chunked = FALSE

NextAuth ==
    \/ \E u \in AuthUsers : Cardinality(access_tokens) < MaxTokens /\ Login(u)
    \/ \E t \in access_tokens, target \in AuthUsers, data \in UpdateBodies :
          audit_log < MaxAudit /\ UpdateUser(t, target, data)
    \/ \E t \in access_tokens : GetStats(t)
    \/ \E t \in access_tokens : audit_log < MaxAudit /\ Logout(t)
    \/ \E t \in access_tokens : GetCurrentUser(t)
    \/ CleanupRevokedTokens
    \/ now + 1 <= MaxAuthHours /\ Tick(1)

SpecAuth == InitAuth /\ [][NextAuth]_vars

\* ------------------------------------------------------------- SpecDelete
\* Both users' documents are stored and embedded; one worker answers their
\* questions, and between two calls a document may be deleted.
InitDelete ==
    /\ IdleClock /\ IdleChunk /\ IdleSem
    /\ query_cache = EmptyKv
    /\ qa_history = <<>>
    /\ chunk_store = AllChunks
    /\ vector_store = AllChunks
    /\ cross_encoder_loaded = FALSE
    /\ cross_encoder = None
    /\ load_attempts = 0
    /\ pc = [w \in Workers |-> "idle"]
    /\ job = [w \in Workers |-> IdleJob]
    /\ stages = [w \in Workers |-> <<>>]

NextDelete ==
    \/ \E d \in Documents : (\A w \in Workers : pc[w] = "idle") /\ DeleteDocument(d)
    \/ \E w \in AskWorkers, q \in AskQuestions, u \in Users, k \in TopKs, a \in Alphas :
          Len(qa_history) < MaxHistory /\ AskStart(w, q, u, k, a)
    \/ \E w \in AskWorkers : AskCacheLookup(w)
    \/ \E w \in AskWorkers : AskDenseSearch(w)
    \/ \E w \in AskWorkers : AskSparseSearch(w)
    \/ \E w \in AskWorkers : AskFuse(w)
    \/ \E w \in AskWorkers : CrossEncoderCheck(w)
    \/ \E w \in AskWorkers : CrossEncoderSetFlag(w)
    \/ \E w \in AskWorkers : CrossEncoderLoad(w)
    \/ \E w \in AskWorkers : CrossEncoderReturn(w)
    \/ \E w \in AskWorkers : RerankPredict(w)
    \/ \E w \in AskWorkers : AskBuildContext(w)
    \/ \E w \in AskWorkers : AskGenerate(w)
    \/ \E w \in AskWorkers : AskPersist(w)
    \/ \E w \in AskWorkers : AskCacheWrite(w)
    \/ \E w \in AskWorkers : AskReturn(w)
    \/ now + 1 <= MaxAskHours /\ Tick(1)

SpecDelete == InitDelete /\ [][NextDelete]_vars

\* ------------------------------------------------------------- C1
\* The number of sentences of a chunk's text.
SentenceCount(text) == Len(SplitSentences(text, <<>>))

\* A chunk that is one sentence which alone exceeds chunk_size.
IsOverlongSentence(c) ==
    /\ SentenceCount(c.text) = 1
    /\ TokenCount(SplitSentences(c.text, <<>>)[1]) > chunk_size

\* C1: every chunk produced by _chunk_text has token_count <= chunk_size,
\* except a chunk that consists of a single sentence which alone exceeds
\* chunk_size.
C1_ChunkWithinBudget ==
    chunked => \A i \in 1..Len(chunks) :
                  chunks[i].token_count <= chunk_size \/ IsOverlongSentence(chunks[i])

\* ------------------------------------------------------------- C2
\* The place of a stage in the pipeline of ask.
StageRank(stage) ==
    CASE stage \in {"cache_hit", "cache_miss", "cache_expired"} -> 1
      [] stage \in {"dense_search", "dense_search_error"} -> 2
      [] stage = "sparse_search" -> 3
      [] stage \in {"fuse", "no_results"} -> 4
      [] stage \in {"rerank", "rerank_error"} -> 5
      [] stage = "build_context" -> 6
      [] stage \in {"generate", "generate_error"} -> 7
      [] stage = "persist" -> 8
      [] stage = "cache_write" -> 9
      [] stage = "return" -> 10
      [] OTHER -> 0

FullRun ==
    <<"cache_miss", "dense_search", "sparse_search", "fuse", "rerank", "build_context",
      "generate", "persist", "cache_write", "return">>

\* C2: in every run of ask the i-th stage passed is the i-th stage of the
\* pipeline lookup, dense search, sparse search, fusion, rerank, context
\* build, generation, persistence, cache write, return (so none is skipped
\* or revisited); a run whose lookup hit has passed no other stage and has
\* returned; and every response in the cache carries the id of a persisted QA
\* record of its question and user.
C2_StagesInOrder ==
    /\ \A w \in Workers :
          job[w].caller = "ask" =>
             /\ \A i \in 1..Len(stages[w]) : StageRank(stages[w][i]) = i
             /\ "cache_hit" \in Range(stages[w]) =>
                   stages[w] = <<"cache_hit">> /\ pc[w] = "idle"
    /\ \A key \in DOMAIN query_cache :
          LET id == query_cache[key].response.qa_id
          IN /\ id \in 1..Len(qa_history)
             /\ get_cache_key(qa_history[id].question, qa_history[id].user_id) = key

\* A run of ask went through every stage and returned.
C2_Witness == \E w \in Workers : pc[w] = "idle" /\ stages[w] = FullRun

\* ------------------------------------------------------------- C3
\* Worker w has returned from an ask whose search found nothing.
NoResultsReturned(w) == pc[w] = "idle" /\ "no_results" \in Range(stages[w])

\* C3 (as the code has it): an ask whose search returns no results returns
\* the fixed no-documents answer with no citations, has passed neither
\* generation nor persistence nor the cache write, and leaves no entry for its
\* question in the response cache; the no-documents answer is never in the
\* cache.  (Its lookup may have removed the expired entry of the question.)
C3_NoResultsWritesNothing ==
    /\ \A w \in Workers :
          NoResultsReturned(w) =>
             /\ job[w].outcome = "ok"
             /\ job[w].response = NoDocuments
             /\ job[w].response.citations = <<>>
             /\ Range(stages[w]) \cap {"generate", "generate_error", "persist", "cache_write"} = {}
             /\ get_cache_key(job[w].question, job[w].user_id) \notin DOMAIN query_cache
    /\ \A key \in DOMAIN query_cache : query_cache[key].response.answer # NoDocuments.answer

\* An ask found an expired cache entry of its question, then no results.
C3_Witness ==
    \E w \in Workers :
       /\ pc[w] = "idle"
       /\ stages[w] = <<"cache_expired", "dense_search", "sparse_search", "no_results">>
       /\ qa_history # <<>>

\* C3 as stated: an ask whose search returns no results has left the
\* response cache unchanged: none of its stages, the lookup included, removed
\* or wrote an entry.
C3_CacheUnchanged ==
    \A w \in Workers :
       NoResultsReturned(w) =>
          Range(stages[w]) \cap {"cache_expired", "cache_write"} = {}

\* ------------------------------------------------------------- C4
\* C4: in every interleaving of the workers' uses of the relevance model,
\* the load of the model is attempted at most once in the process.
C4_SingleLoadAttempt == load_attempts <= 1

\* ------------------------------------------------------------- C5
\* C5: after set(q, answer, ...) has returned, and until an invalidate, a
\* get within the TTL of q or of a case or whitespace variant of q, with no
\* embedding, returns the answer written for q tagged "exact".
C5_SetThenGetExact ==
    (last_set # <<>> /\ now < last_set[1].at + ttl_hours) =>
       \A q \in CacheQuestions \cup PruneQuestions :
          Normalize(q) = Normalize(last_set[1].question) =>
             \A index_data \in HashOrders(cache_index) :
                LET r == cache_get(redis_kv, index_data, q, NoEmbedding)
                IN r.cache_hit = "exact" /\ r.entry.answer = last_set[1].answer

\* ------------------------------------------------------------- C6
\* The fields of the index whose entry is stored (and so unexpired) and whose
\* embedding is similar enough to embedding.
Candidates(kv, index, embedding) ==
    {i \in 1..Len(index) :
        /\ index[i].key \in DOMAIN kv
        /\ ReachesThreshold(cosine_similarity(embedding, index[i].embedding))}

\* C6: a get with an embedding and no exact hit returns, when some stored
\* entry's embedding reaches the similarity threshold, a stored entry of the
\* highest similarity tagged "semantic" with that similarity, and a miss when
\* no stored entry reaches the threshold.
C6_SemanticBest ==
    \A q \in QueryQuestions, e \in QueryEmbeddings \ {NoEmbedding} :
       compute_hash(q) \notin DOMAIN redis_kv =>
          \A index_data \in HashOrders(cache_index) :
             LET r == cache_get(redis_kv, index_data, q, e)
                 cands == Candidates(redis_kv, index_data, e)
                 sim(i) == cosine_similarity(e, index_data[i].embedding)
             IN IF cands = {}
                THEN r = Miss
                ELSE /\ r.cache_hit = "semantic"
                     /\ \E i \in cands :
                           /\ r.entry = redis_kv[index_data[i].key]
                           /\ r.similarity = sim(i)
                           /\ \A j \in cands : SimAtLeast(sim(i), sim(j))

\* ------------------------------------------------------------- C7
\* C7, for the response cache of the orchestrator: a lookup of a question
\* that has an entry in the cache returns the entry exactly when the entry is
\* younger than the TTL of 24 hours.
C7_ServedWithinTTL ==
    [][\A w \in Workers :
          pc[w] = "lookup" /\ pc'[w] # "lookup" =>
             LET key == get_cache_key(job[w].question, job[w].user_id)
             IN key \in DOMAIN query_cache =>
                   ((now - query_cache[key].timestamp < ttl_hours)
                       <=> (stages'[w] = <<"cache_hit">> /\ job'[w].response.cached))]_vars

\* ------------------------------------------------------------- C8
\* C8: a set that makes the number of stored entries exceed max_cache_size
\* removes about a tenth of them (at least one of ten or more, and no more
\* than a tenth rounded up), and every entry it removes was written no later
\* than every entry it keeps.
C8_PruneOldestTenth ==
    [][set_calls' = set_calls + 1 =>
          LET s == last_set'[1]
              written == SetEx(redis_kv, compute_hash(s.question),
                               cache_data(s.question, s.answer, s.at))
              count == Cardinality(DOMAIN written)
              removed == DOMAIN written \ DOMAIN redis_kv'
          IN count > max_cache_size =>
                /\ count >= 10 => removed # {}
                /\ 10 * Cardinality(removed) <= count + 9
                /\ \A r \in removed, k \in DOMAIN redis_kv' :
                      written[r].cached_at <= written[k].cached_at]_vars

\* ------------------------------------------------------------- C9
\* C9: whenever a set has returned, the number of stored cache entries is at
\* most max_cache_size.
C9_WithinMaxSize == Cardinality(DOMAIN redis_kv) <= max_cache_size

\* ------------------------------------------------------------- C10
\* C10: invalidate(q) returns true exactly when an entry was stored under the
\* key of q, leaves none stored under it, and leaves every other entry and
\* every other field of the index as it was; and no get returns an entry of a
\* question that was invalidated and not set again since.
C10_Invalidate ==
    [][/\ (last_get'.op = "get" /\ last_get'.ret.cache_hit # "miss") =>
             compute_hash(last_get'.ret.entry.question) \notin invalidated'
       /\ last_get'.op = "invalidate" =>
             LET key == compute_hash(last_get'.question)
                 other(e) == e.key # key
             IN /\ last_get'.ret = (key \in DOMAIN redis_kv)
                /\ key \notin DOMAIN redis_kv'
                /\ key \in invalidated'
                /\ DOMAIN redis_kv' = DOMAIN redis_kv \ {key}
                /\ \A k \in DOMAIN redis_kv' : redis_kv'[k] = redis_kv[k]
                /\ SelectSeq(cache_index', other) = SelectSeq(cache_index, other)]_vars

\* invalidate has removed a stored entry and left others stored and indexed.
C10_Witness ==
    /\ last_get.op = "invalidate"
    /\ last_get.ret = TRUE
    /\ redis_kv # EmptyKv
    /\ cache_index # <<>>

\* ------------------------------------------------------------- C11
\* Worker w has returned from hybrid_search.
Fused(w) == job[w].caller = "hybrid_search" /\ pc[w] = "idle"

\* C11: a returned chunk at 0-based dense rank r1 and sparse rank r2 has the
\* score alpha/(60+r1+1) + (1-alpha)/(60+r2+1), a chunk only in the dense
\* ranking at rank r has alpha/(60+r+1), and a chunk only in the sparse
\* ranking at rank r has (1-alpha)/(60+r+1); alpha is alpha10 tenths and a
\* score s stands for s / (10 * RRFScale).
C11_FusedScore ==
    \A w \in Workers :
       Fused(w) =>
          \A i \in 1..Len(job[w].fused) :
             LET c == job[w].fused[i].chunk_id
                 s == job[w].fused[i].score
                 a == job[w].alpha10
                 dense == job[w].dense
                 sparse == job[w].sparse
                 d1 == 60 + RankOf(dense, c) + 1
                 d2 == 60 + RankOf(sparse, c) + 1
             IN IF c \in Range(dense) /\ c \in Range(sparse)
                THEN /\ RRFScale % d1 = 0 /\ RRFScale % d2 = 0
                     /\ s = a * (RRFScale \div d1) + (10 - a) * (RRFScale \div d2)
                ELSE IF c \in Range(dense)
                     THEN RRFScale % d1 = 0 /\ s = a * (RRFScale \div d1)
                     ELSE /\ c \in Range(sparse)
                          /\ RRFScale % d2 = 0 /\ s = (10 - a) * (RRFScale \div d2)

\* hybrid_search returned a chunk of both rankings at different ranks, one
\* only of the dense and one only of the sparse ranking.
C11_Witness ==
    \E w \in Workers :
       /\ Fused(w)
       /\ job[w].alpha10 = 7
       /\ job[w].dense = <<1, 2>>
       /\ job[w].sparse = <<3, 1>>
       /\ Len(job[w].fused) = 3

\* ------------------------------------------------------------- C12
\* C12: with alpha = 1.0 the list hybrid_search returns is the dense
\* ranking truncated to top_k: the same chunks in the same order.
C12_AlphaOneIsDense ==
    \A w \in Workers :
       (Fused(w) /\ job[w].alpha10 = 10) =>
          ChunkIds(job[w].fused) = Truncate(job[w].dense, job[w].top_k)

\* ------------------------------------------------------------- C13
\* C13: the list hybrid_search returns is sorted by score in non-increasing
\* order, has at most top_k elements, holds each chunk id at most once, holds
\* only chunks of the two rankings, and gives each its fused score.
C13_SortedTruncatedUnique ==
    \A w \in Workers :
       Fused(w) =>
          LET fused == job[w].fused
              scores == rrf_scores(job[w].dense, job[w].sparse, job[w].alpha10)
          IN /\ \A i \in 1..(Len(fused) - 1) : fused[i].score >= fused[i + 1].score
             /\ Len(fused) <= job[w].top_k
             /\ \A i, j \in 1..Len(fused) : fused[i].chunk_id = fused[j].chunk_id => i = j
             /\ \A i \in 1..Len(fused) :
                   /\ fused[i].chunk_id \in Range(job[w].dense) \cup Range(job[w].sparse)
                   /\ \E k \in 1..Len(scores) : scores[k] = fused[i]

\* hybrid_search cut a list with a chunk of both rankings down to top_k.
C13_Witness ==
    \E w \in Workers :
       /\ Fused(w)
       /\ job[w].top_k = 2
       /\ Len(job[w].fused) = 2
       /\ Range(job[w].dense) \cap Range(job[w].sparse) # {}
       /\ Cardinality(Range(job[w].dense) \cup Range(job[w].sparse)) = 3

\* ------------------------------------------------------------- C14
\* The last stage of the call worker w has finished.
LastStage(w) == IF stages[w] = <<>> THEN "none" ELSE stages[w][Len(stages[w])]

\* C14: whatever fails in the reranking stage, rerank raises no error to
\* ask: no call of ask ends with an error raised by rerank.
C14_RerankNeverRaises ==
    \A w \in Workers :
       (pc[w] = "idle" /\ job[w].caller = "ask") =>
          ~(LastStage(w) = "rerank_error" /\ job[w].outcome = "error")

\* ------------------------------------------------------------- C15
\* C15: when the embedding call of dense search fails, the query does not
\* fail: no call of ask ends with the error of dense search.
C15_DenseFailureTolerated ==
    \A w \in Workers :
       (pc[w] = "idle" /\ job[w].caller = "ask") =>
          ~(LastStage(w) = "dense_search_error" /\ job[w].outcome = "error")

Answered(w) ==
    /\ pc[w] = "idle" /\ job[w].caller \in {"ask", "stream"}
    /\ job[w].outcome = "ok" /\ job[w].response.answer \in GenAnswers

\* C17: every question that completes with an answer, through ask or
\* through the streaming endpoint, has a QA record of that question and user
\* handed to persistence.
C17_AnswerHasRecord ==
    \A w \in Workers :
       Answered(w) =>
          \E i \in 1..Len(qa_history) :
             /\ qa_history[i].question = job[w].question
             /\ qa_history[i].user_id = job[w].user_id
             /\ qa_history[i].answer = job[w].response.answer

\* ------------------------------------------------------------- C18
\* C18: for POST /ask and POST /ask/stream and every requesting user, each
\* chunk dense or sparse search returned, each passage of the context and
\* each citation is of a document the requesting user uploaded.
C18_OwnChunksOnly ==
    \A w \in Workers :
       job[w].caller \in {"ask", "stream"} =>
          \A c \in Range(job[w].dense) \cup Range(job[w].sparse) \cup Range(job[w].reranked)
                    \cup Range(job[w].citations) \cup Range(job[w].response.citations) :
             ChunkOwner(c) = job[w].user_id

\* ------------------------------------------------------------- C19
\* C19: after any sequence of upload, process, reprocess and task retries
\* on a document, the chunk_index values of its stored chunks are exactly
\* 0..n-1, each occurring once, n being the number of stored chunks.
C19_ChunkIndexGapless ==
    \A i \in 0..(Len(chunk_rows) - 1) :
       Cardinality({j \in 1..Len(chunk_rows) : chunk_rows[j] = i}) = 1

\* ------------------------------------------------------------- C20
\* The words of the chunks' texts, in chunk order.
ChunkWords ==
    SelectSeq(Flatten([c \in 1..Len(chunks) |-> chunks[c].text]),
              LAMBDA t : t # Terminator)

\* The number of words of item i there are in s.
WordsOf(s, i) == Len(SelectSeq(s, LAMBDA t : t = i))

\* C20: every item with non-blank text contributes its text to at least one
\* chunk of _chunk_text, the chunks keep the input order, and the chunk list
\* is non-empty whenever the input has a non-blank item and empty when the
\* input is empty.
C20_EveryItemChunked ==
    chunked =>
       /\ \A i \in 1..Len(content) : WordsOf(ChunkWords, i) >= WordsOf(content[i].text, i)
       /\ \A j \in 1..(Len(ChunkWords) - 1) : ChunkWords[j] <= ChunkWords[j + 1]
       /\ (\E i \in 1..Len(content) : content[i].text # <<>>) => chunks # <<>>
       /\ content = <<>> => chunks = <<>>

\* ------------------------------------------------------------- C21
\* C21: in every persisted state, a chunk whose embedding_id is set has its
\* vector in the vector store.
C21_EmbeddingIdHasVector ==
    \A i \in 1..Len(chunk_rows) : row_embedded[i] => row_vector[i]

\* ------------------------------------------------------------- C22
\* C22: when two workers run ask concurrently for the same user and the same
\* normalized question, both calls complete with an answer in every
\* interleaving: a call ends with an error only when the embedding service or
\* the generation service failed it.
C22_BothComplete ==
    \A w \in Workers :
       (pc[w] = "idle" /\ job[w].caller = "ask" /\ job[w].outcome = "error") =>
          LastStage(w) \in {"dense_search_error", "rerank_error", "generate_error"}

\* ------------------------------------------------------------- C23
\* C23: for a search result of any text length, the text_snippet of its
\* citation has at most 200 characters, the ellipsis included.
C23_SnippetWithin200 ==
    snippet_built => Len(text_snippet) <= 200

\* ------------------------------------------------------------- C24
\* A step in which an operation processed the document.
ProcessingStep ==
    \/ last_run' # last_run
    \/ chunk_rows' # chunk_rows
    \/ doc_status' # doc_status
    \/ task_retries' > task_retries
    \/ task_queued /\ ~task_queued'

AdminRequest(t) ==
    /\ last_request'.kind \in {"update_user", "stats"}
    /\ last_request'.jti = t.jti
    /\ \/ last_request' # last_request
       \/ user_role' # user_role
       \/ user_active' # user_active
       \/ audit_log' # audit_log

\* C25: after any logins, role updates and deactivations, a request to an
\* admin endpoint by an authenticated user whose current role is not admin is
\* answered 403 and changes no user and no audit row.
C25_NonAdminForbidden ==
    [][\A t \in access_tokens :
          (AdminRequest(t) /\ Authenticated(t) /\ user_role[t.user_id] # "admin") =>
             /\ last_request'.status = 403
             /\ user_role' = user_role
             /\ user_active' = user_active
             /\ audit_log' = audit_log]_vars

\* ------------------------------------------------------------- C27
\* C27: after a successful logout made with an access token, every later
\* request that presents the token to a JWT-protected endpoint is rejected
\* as unauthenticated.
C27_LoggedOutTokenRejected ==
    [][\A t \in access_tokens :
          (/\ t.jti \in token_blacklist
           /\ last_request'.jti = t.jti
           /\ last_request'.kind \in {"update_user", "stats", "me", "logout"}
           /\ last_request' # last_request) =>
             last_request'.status = 401]_vars

\* ------------------------------------------------------------- C26
\* Worker w has returned from rerank of a non-empty result list. While no
\* load has finished (load_attempts = 0) the model was never there, so the
\* call can only have returned the results as they came (pass-through).
RerankReturned(w) ==
    /\ pc[w] = "idle"
    /\ job[w].caller = "rerank"
    /\ job[w].outcome = "ok"
    /\ job[w].results # <<>>

\* C26: a worker that calls rerank while another worker's first load of the
\* relevance model is in progress obtains the outcome of that load: when
\* the load succeeds, no other worker has by then passed its results through
\* as if the model were unavailable.
C26_SameLoadOutcome ==
    [][\A v \in Workers, w \in Workers :
          (/\ v # w
           /\ pc[v] = "ce_load"
           /\ load_attempts = 0
           /\ pc'[v] = "ce_return"
           /\ cross_encoder' = "model") => ~RerankReturned(w)]_vars

\* ------------------------------------------------------------- C28
\* C28: every key in cache_index refers to an entry that is still stored and
\* unexpired; an entry removed by expiry, pruning or invalidation has left
\* the index.
C28_IndexRefersToLiveEntries ==
    \A i \in 1..Len(cache_index) : cache_index[i].key \in DOMAIN redis_kv

\* ------------------------------------------------------------- C29
\* C29: after a document is deleted, no answer that ask returns to any user
\* cites it, also when the question was cached before the deletion: every
\* citation of a returned answer is of a chunk that is still stored.
C29_NoCitationOfDeleted ==
    [][\A w \in Workers :
          (/\ pc[w] # "idle"
           /\ pc'[w] = "idle"
           /\ job'[w].caller = "ask"
           /\ job'[w].outcome = "ok") =>
             \A i \in 1..Len(job'[w].response.citations) :
                job'[w].response.citations[i] \in chunk_store]_vars

\* ------------------------------------------------------------- C30
\* C30: once an upload, a reprocess or a run of the worker has finished, a
\* document with status processed has every stored chunk embedded (its
\* embedding_id set and its vector in the store), and its chunk_count is the
\* number of its stored chunks.
C30_ProcessedIsEmbedded ==
    (last_run.op # "none" /\ doc_status = "processed") =>
       /\ \A i \in 1..Len(chunk_rows) : row_embedded[i] /\ row_vector[i]
       /\ chunk_count = Len(chunk_rows)

====
